---- MODULE Spec2Model ----
(***************************************************************************)
(* The text-to-SQL-to-insight loop of src/ai_agent.py: generate_sql,       *)
(* explain_results and the orchestrator ask_data_agent, together with the  *)
(* two external services they call (the Bedrock completion endpoint and    *)
(* the Athena query engine).  Several invocations of ask_data_agent run    *)
(* concurrently, one per thread; every external call is split into the     *)
(* step that issues the request and the step that receives the reply.      *)
(*                                                                         *)
(* Text is a sequence of one-character strings, so that str.strip,         *)
(* str.replace and the f-string "Error: {str(e)}" are computed and not     *)
(* assumed.                                                                *)
(***************************************************************************)
EXTENDS Integers, Sequences, FiniteSets, TLC

\* ------------------------------------------------------------------ bounds
\* Largest number of rows the engine returns in one result table.
MaxRows == 2

\* Largest number of pieces a model text is put together from, where every
\* model text is to be covered.
MaxPieces == 6

\* Longest transcript a session of the dashboard page builds up.
MaxMessages == 3

\* The threads that call ask_data_agent.
Threads == {"t1", "t2"}

\* ------------------------------------------------------------ Python values
\* Every Python object the orchestrator handles is a record of one shape.
PyNone == [type |-> "NoneType", text |-> <<>>, columns |-> <<>>, rows |-> <<>>]

\* A local variable that has not been assigned yet.
Unbound == [type |-> "unbound", text |-> <<>>, columns |-> <<>>, rows |-> <<>>]

PyStr(s) == [type |-> "str", text |-> s, columns |-> <<>>, rows |-> <<>>]

DataFrame(cols, rs) == [type |-> "DataFrame", text |-> <<>>, columns |-> cols, rows |-> rs]

\* str(x) inside an f-string: None is rendered as the four letters None.
Format(obj) == IF obj.type = "NoneType" THEN <<"N","o","n","e">> ELSE obj.text

\* --------------------------------------------------------------- constants
DATABASE == "food_security_db"

ErrorPrefix == <<"E","r","r","o","r",":"," ">>

NoDataMsg == <<"N","o"," ","d","a","t","a"," ","f","o","u","n","d"," ","f","o","r"," ","t","h","a","t"," ","q","u","e","r","y",".">>

\* The grave accent, the character Markdown fences are made of (the lexer
\* does not accept it inside a string, so it is written as a token).
Tick == "GRAVE"

FenceSql == <<Tick, Tick, Tick, "s", "q", "l">>

Fence == <<Tick, Tick, Tick>>

\* The characters str.strip() removes.
Whitespace == {" ", "\n", "\t", "\r"}

\* ------------------------------------------------------------ str methods
RECURSIVE LStrip(_)
LStrip(s) == IF s # <<>> /\ Head(s) \in Whitespace THEN LStrip(Tail(s)) ELSE s

RECURSIVE RStrip(_)
RStrip(s) ==
    IF s # <<>> /\ s[Len(s)] \in Whitespace THEN RStrip(SubSeq(s, 1, Len(s) - 1)) ELSE s

\* s.strip()
Strip(s) == RStrip(LStrip(s))

\* s.replace(old, ""): leftmost, non-overlapping occurrences, in one pass.
RECURSIVE Remove(_, _)
Remove(s, old) ==
    IF Len(s) < Len(old) THEN s
    ELSE IF SubSeq(s, 1, Len(old)) = old
         THEN Remove(SubSeq(s, Len(old) + 1, Len(s)), old)
         ELSE <<Head(s)>> \o Remove(Tail(s), old)

\* Variant: only the bare fence is removed.
CleanSql_BareFenceOnly(text) == Strip(Remove(Strip(text), Fence))

\* Variant: the text is not stripped after the fences are removed.
CleanSql_NoFinalStrip(text) == Remove(Remove(Strip(text), FenceSql), Fence)

\* The cleanup of generate_sql: strip, drop the fences, strip again.
CleanSql(text) == Strip(Remove(Remove(Strip(text), FenceSql), Fence))

\* ------------------------------------------------------ external services
\* A reply of an external service, as one record shape for both services:
\*   kind    what came back ("pending" while the call is in flight),
\*   msg     the message of the error the client library raises,
\*   content the "content" list of a parsed Bedrock body (its text blocks),
\*   table   the DataFrame awswrangler built from the engine's rows.
Reply(k, m, c, t) == [kind |-> k, msg |-> m, content |-> c, table |-> t]

Pending == Reply("pending", <<>>, <<>>, PyNone)

\* Texts the language model may put in its first content block.
ModelTexts ==
    { <<"S">>,
      <<Tick, Tick, Tick, "s", "q", "l", "\n", "S", "\n", Tick, Tick, Tick>>,
      <<" ", "O", "K", "\n">>,
      <<>> }

\* The pieces arbitrary model texts are put together from: one grave
\* accent, a whole fence, the letters sql, a line break, another letter.
TextPieces == { <<Tick>>, Fence, <<"s", "q", "l">>, <<"\n">>, <<"S">> }

RECURSIVE Flatten(_)
Flatten(ps) == IF ps = <<>> THEN <<>> ELSE Head(ps) \o Flatten(Tail(ps))

\* Every text of at most n pieces.
TextsOf(n) == UNION { { Flatten(ps) : ps \in [1..k -> TextPieces] } : k \in 0..n }

\* Every model text of at most MaxPieces pieces.
AllTexts == TextsOf(MaxPieces)

\* What bedrock.invoke_model followed by reading the body can produce:
\* the call raises, the body is not JSON, the JSON has no "content" key,
\* the content list is empty, or the content list holds one text block.
BedrockReplies ==
    { Reply("ClientError", <<"T","h","r","o","t","t","l","e","d">>, <<>>, PyNone),
      Reply("NotJson", <<>>, <<>>, PyNone),
      Reply("NoContentKey", <<>>, <<>>, PyNone),
      Reply("Content", <<>>, <<>>, PyNone) }
    \cup { Reply("Content", <<>>, <<txt>>, PyNone) : txt \in ModelTexts }

\* The engine's result columns and its i-th row.
ResultColumns == <<"area", "composite_risk_score">>

ResultRow(i) == <<i, 10 * i>>

\* Messages of the errors the query engine raises.
EngineMessages ==
    { <<"S","Y","N","T","A","X","_","E","R","R","O","R">>,
      <<"E","r","r","o","r",":"," ","t","i","m","e","o","u","t">> }

\* What wr.athena.read_sql_query can produce: it raises with the engine's
\* message, or it returns a table of 0..MaxRows rows in the engine's order.
AthenaReplies ==
    { Reply("QueryFailed", m, <<>>, PyNone) : m \in EngineMessages }
    \cup { Reply("Table", <<>>, <<>>, DataFrame(ResultColumns, [i \in 1..n |-> ResultRow(i)]))
           : n \in 0..MaxRows }

\* The questions a caller passes: a text, or None (the dashboard passes the
\* value of st.chat_input, which is None when nothing was submitted).
Questions == { PyStr(<<"Q","?">>), PyNone }

\* -------------------------------------------------------------- exceptions
Exc(c, a) == [cls |-> c, arg |-> a]

NoExc == Exc("none", <<>>)

\* The classes that derive from Exception (what "except Exception" catches).
ExceptionClasses ==
    {"ClientError", "JSONDecodeError", "KeyError", "IndexError", "AttributeError", "QueryFailed"}

\* Variant: only the errors of the two service clients are caught.
IsException_ServiceOnly(e) == e.cls \in {"ClientError", "QueryFailed"}

IsException(e) == e.cls \in ExceptionClasses

\* str(e): the message; for a KeyError the repr of the missing key.
Str(e) == IF e.cls = "KeyError" THEN <<"'">> \o e.arg \o <<"'">> ELSE e.arg

\* The outcome of a function call: a value, or a raised exception.
Returned(v) == [raised |-> FALSE, exc |-> NoExc, value |-> v]

Raised(e) == [raised |-> TRUE, exc |-> e, value |-> <<>>]

\* ------------------------------------------------------------- the functions
\* bedrock.invoke_model(...), json.loads(response.get('body').read()) and
\* the subscripts ['content'][0]['text'], as generate_sql and
\* explain_results both write them.
InvokeModel(reply) ==
    CASE reply.kind = "ClientError" -> Raised(Exc("ClientError", reply.msg))
      [] reply.kind = "NotJson" ->
            Raised(Exc("JSONDecodeError", <<"E","x","p","e","c","t","i","n","g"," ","v","a","l","u","e">>))
      [] reply.kind = "NoContentKey" -> Raised(Exc("KeyError", <<"c","o","n","t","e","n","t">>))
      [] reply.kind = "Content" /\ reply.content = <<>> ->
            Raised(Exc("IndexError",
                       <<"l","i","s","t"," ","i","n","d","e","x"," ","o","u","t"," ","o","f"," ","r","a","n","g","e">>))
      [] OTHER -> Returned(reply.content[1])

\* Variant: a failed completion is swallowed and an empty query returned.
generate_sql_Swallow(reply) ==
    LET r == InvokeModel(reply)
    IN  IF r.raised THEN Returned(<<>>) ELSE Returned(CleanSql(r.value))

\* generate_sql, from the reply of its completion call to its return value.
generate_sql(reply) ==
    LET r == InvokeModel(reply)
    IN  IF r.raised THEN r ELSE Returned(CleanSql(r.value))

\* Variant: the summary is stripped like the query text.
explain_results_Stripped(reply) ==
    LET r == InvokeModel(reply)
    IN  IF r.raised THEN r ELSE Returned(Strip(r.value))

\* explain_results, from the reply of its completion call to its return
\* value: the text of the first content block, as it is.
explain_results(reply) == InvokeModel(reply)

\* wr.athena.read_sql_query, from the engine's reply to its return value.
read_sql_query(reply) ==
    IF reply.kind = "QueryFailed"
    THEN Raised(Exc("QueryFailed", reply.msg))
    ELSE Returned(reply.table)

\* Variant: the emptiness test is missing.
DfEmpty_Never(d) == FALSE

\* Variant: only the column axis is tested.
DfEmpty_ColumnsOnly(d) == Len(d.columns) = 0

\* df.empty: some axis of the frame has length 0.
DfEmpty(d) == Len(d.rows) = 0 \/ Len(d.columns) = 0

\* Variant: only the first row is serialised (df.head(1)).
to_csv_HeadOnly(d) == <<d.columns>> \o SubSeq(d.rows, 1, 1)

\* df.to_csv(index=False): the header line, then every row in order.
to_csv(d) == <<d.columns>> \o d.rows

\* What a request to an external service carries.
Request(sch, q, s, d) == [schema |-> sch, question |-> q, sql |-> s, data |-> d]

\* One external call: the client function, the function that made the
\* call, the request, and the reply (Pending while in flight).
Call(a, c, rq) == [api |-> a, caller |-> c, request |-> rq, reply |-> Pending]

\* ------------------------------------------------------------------- state
VARIABLES
    pc,        \* pc[t]: the phase of thread t's invocation of ask_data_agent
    question,  \* question[t]: the argument of the invocation
    sql,       \* sql[t]: the local variable sql
    df,        \* df[t]: the local variable df
    exc,       \* exc[t]: the exception bound to e in the except clause
    ret,       \* ret[t]: the tuple the invocation returned, <<>> before
    calls,     \* calls[t]: the external calls of the invocation, in order
    messages,  \* messages[t]: st.session_state.messages of the session on t
    rendering  \* rendering[t]: a run of the AI Analyst page is under way on t

vars == <<pc, question, sql, df, exc, ret, calls, messages, rendering>>

\* The state of the dashboard page, which ask_data_agent never touches.
pageVars == <<messages, rendering>>

\* Variant: the schema text is kept in a module-level variable that the
\* first prompt built from it extends.
get_athena_schema_Accumulating ==
    IF \A t \in Threads : calls[t] = <<>>
    THEN "You are a Data Analyst for the UN. ... Table: v_agent ... Rules: 1..5"
    ELSE "You are a Data Analyst for the UN. ... Table: v_agent ... Rules: 1..5 User Question: ..."

\* get_athena_schema(): the same literal text on every call.
get_athena_schema == "You are a Data Analyst for the UN. ... Table: v_agent ... Rules: 1..5"

NoRet == <<>>

Phases == {"Idle", "Synthesizing", "Executing", "EmptyResult", "Summarizing", "Done", "Failed", "Raised"}

\* The last external call of thread t is still waiting for its reply.
InFlight(t) == calls[t] # <<>> /\ calls[t][Len(calls[t])].reply = Pending

Init ==
    /\ pc = [t \in Threads |-> "Idle"]
    /\ question = [t \in Threads |-> Unbound]
    /\ sql = [t \in Threads |-> Unbound]
    /\ df = [t \in Threads |-> Unbound]
    /\ exc = [t \in Threads |-> NoExc]
    /\ ret = [t \in Threads |-> NoRet]
    /\ calls = [t \in Threads |-> <<>>]
    /\ messages = [t \in Threads |-> <<>>]
    /\ rendering = [t \in Threads |-> FALSE]

\* ------------------------------------------------------- the orchestrator
\* A local variable as a handler would return it: None while unassigned.
LocalOrNone(v) == IF v.type = "unbound" THEN PyNone ELSE v

\* Variant: an empty table is reported like a failure.
EmptyTuple_AsFailure(s, d) == <<PyNone, PyNone, PyStr(ErrorPrefix \o NoDataMsg)>>

\* return sql, df, "No data found for that query."
EmptyTuple(s, d) == <<s, d, PyStr(NoDataMsg)>>

\* Variant: the query text is kept in one module-level slot (here the one
\* thread t1 writes) instead of a local variable.
DoneTuple_SharedSql(s, d, summary) == <<LocalOrNone(sql["t1"]), d, PyStr(summary)>>

\* return sql, df, summary
DoneTuple(s, d, summary) == <<s, d, PyStr(summary)>>

\* Variant: the handler reports a fixed text instead of str(e).
ExceptClause_NoMessage(t, e) ==
    IF IsException(e)
    THEN [pc |-> "Failed", ret |-> <<PyNone, PyNone, PyStr(ErrorPrefix \o <<"f","a","i","l","e","d">>)>>]
    ELSE [pc |-> "Raised", ret |-> NoRet]

\* Variant: the handler returns what was obtained before the failure.
ExceptClause_Partial(t, e) ==
    IF IsException(e)
    THEN [pc |-> "Failed",
          ret |-> <<LocalOrNone(sql[t]), LocalOrNone(df[t]), PyStr(ErrorPrefix \o Str(e))>>]
    ELSE [pc |-> "Raised", ret |-> NoRet]

\* Variant: the handler keeps the query text and drops only the table.
ExceptClause_KeepSql(t, e) ==
    IF IsException(e)
    THEN [pc |-> "Failed", ret |-> <<LocalOrNone(sql[t]), PyNone, PyStr(ErrorPrefix \o Str(e))>>]
    ELSE [pc |-> "Raised", ret |-> NoRet]

\* Variant: the handler lets the failed phase run again.
ExceptClause_Retry(t, e) == [pc |-> pc[t], ret |-> NoRet]

\* except Exception as e: return None, None, f"Error: {str(e)}"
\* An exception of another class is not caught and leaves the function.
ExceptClause(t, e) ==
    IF IsException(e)
    THEN [pc |-> "Failed", ret |-> <<PyNone, PyNone, PyStr(ErrorPrefix \o Str(e))>>]
    ELSE [pc |-> "Raised", ret |-> NoRet]

\* An exception e is raised inside the try block of thread t.
Throw(t, e) ==
    /\ pc' = [pc EXCEPT ![t] = ExceptClause(t, e).pc]
    /\ ret' = [ret EXCEPT ![t] = ExceptClause(t, e).ret]
    /\ exc' = [exc EXCEPT ![t] = e]

Issue(t, c) == calls' = [calls EXCEPT ![t] = Append(@, c)]

Receive(t, reply) == calls' = [calls EXCEPT ![t][Len(calls[t])].reply = reply]

\* Thread t enters ask_data_agent(q): a fresh frame, nothing assigned.
Enter(t, q) ==
    /\ pc' = [pc EXCEPT ![t] = "Synthesizing"]
    /\ question' = [question EXCEPT ![t] = q]
    /\ sql' = [sql EXCEPT ![t] = Unbound]
    /\ df' = [df EXCEPT ![t] = Unbound]
    /\ exc' = [exc EXCEPT ![t] = NoExc]
    /\ ret' = [ret EXCEPT ![t] = NoRet]
    /\ calls' = [calls EXCEPT ![t] = <<>>]

\* Variant: a question another thread has already answered is served from
\* that answer, without any call of its own.
Ask_Cached(t, q) ==
    /\ pc[t] \in {"Idle", "Done", "Failed"}
    /\ ~rendering[t]
    /\ IF \E u \in Threads \ {t} : pc[u] \in {"Done", "Failed"} /\ question[u] = q
       THEN LET u == CHOOSE u \in Threads \ {t} : pc[u] \in {"Done", "Failed"} /\ question[u] = q
            IN  /\ pc' = [pc EXCEPT ![t] = pc[u]]
                /\ question' = [question EXCEPT ![t] = q]
                /\ sql' = [sql EXCEPT ![t] = Unbound]
                /\ df' = [df EXCEPT ![t] = Unbound]
                /\ exc' = [exc EXCEPT ![t] = NoExc]
                /\ ret' = [ret EXCEPT ![t] = ret[u]]
                /\ calls' = [calls EXCEPT ![t] = <<>>]
       ELSE Enter(t, q)
    /\ UNCHANGED pageVars

\* A caller invokes ask_data_agent(q) on a thread that runs no invocation.
Ask(t, q) ==
    /\ pc[t] \in {"Idle", "Done", "Failed"}
    /\ ~rendering[t]
    /\ Enter(t, q)
    /\ UNCHANGED pageVars

\* generate_sql builds its prompt and calls bedrock.invoke_model.
SynthInvoke(t) ==
    /\ pc[t] = "Synthesizing"
    /\ ~InFlight(t)
    /\ Issue(t, Call("invoke_model", "generate_sql",
                     Request(get_athena_schema, Format(question[t]), <<>>, <<>>)))
    /\ UNCHANGED <<pc, question, sql, df, exc, ret>>
    /\ UNCHANGED pageVars

\* The completion call of generate_sql returns or raises.
SynthReturn(t, reply) ==
    /\ pc[t] = "Synthesizing"
    /\ InFlight(t)
    /\ Receive(t, reply)
    /\ LET r == generate_sql(reply)
       IN  IF r.raised
           THEN Throw(t, r.exc) /\ UNCHANGED sql
           ELSE /\ sql' = [sql EXCEPT ![t] = PyStr(r.value)]
                /\ pc' = [pc EXCEPT ![t] = "Executing"]
                /\ UNCHANGED <<exc, ret>>
    /\ UNCHANGED <<question, df>>
    /\ UNCHANGED pageVars

\* Variant: the text of the model's reply is executed as it came, without
\* the cleanup.
ExecInvoke_RawText(t) ==
    /\ pc[t] = "Executing"
    /\ ~InFlight(t)
    /\ Issue(t, Call("read_sql_query", "ask_data_agent",
                     Request(DATABASE, <<>>, calls[t][1].reply.content[1], <<>>)))
    /\ UNCHANGED <<pc, question, sql, df, exc, ret>>
    /\ UNCHANGED pageVars

\* wr.athena.read_sql_query(sql, database=DATABASE) is called.
ExecInvoke(t) ==
    /\ pc[t] = "Executing"
    /\ ~InFlight(t)
    /\ Issue(t, Call("read_sql_query", "ask_data_agent",
                     Request(DATABASE, <<>>, sql[t].text, <<>>)))
    /\ UNCHANGED <<pc, question, sql, df, exc, ret>>
    /\ UNCHANGED pageVars

\* The query returns a table or raises; then "if df.empty".
ExecReturn(t, reply) ==
    /\ pc[t] = "Executing"
    /\ InFlight(t)
    /\ Receive(t, reply)
    /\ LET r == read_sql_query(reply)
       IN  IF r.raised
           THEN Throw(t, r.exc) /\ UNCHANGED df
           ELSE /\ df' = [df EXCEPT ![t] = r.value]
                /\ pc' = [pc EXCEPT ![t] = IF DfEmpty(r.value) THEN "EmptyResult" ELSE "Summarizing"]
                /\ UNCHANGED <<exc, ret>>
    /\ UNCHANGED <<question, sql>>
    /\ UNCHANGED pageVars

\* The empty table is returned with the fixed sentence.
ReturnEmpty(t) ==
    /\ pc[t] = "EmptyResult"
    /\ ret' = [ret EXCEPT ![t] = EmptyTuple(sql[t], df[t])]
    /\ pc' = [pc EXCEPT ![t] = "Done"]
    /\ UNCHANGED <<question, sql, df, exc, calls>>
    /\ UNCHANGED pageVars

\* Variant: the summarization prompt is built from the generated SQL in
\* place of the question.
ExplainInvoke_SqlAsQuestion(t) ==
    /\ pc[t] = "Summarizing"
    /\ ~InFlight(t)
    /\ Issue(t, Call("invoke_model", "explain_results",
                     Request("", Format(sql[t]), <<>>, to_csv(df[t]))))
    /\ UNCHANGED <<pc, question, sql, df, exc, ret>>
    /\ UNCHANGED pageVars

\* explain_results serialises the table, builds its prompt and calls
\* bedrock.invoke_model.
ExplainInvoke(t) ==
    /\ pc[t] = "Summarizing"
    /\ ~InFlight(t)
    /\ Issue(t, Call("invoke_model", "explain_results",
                     Request("", Format(question[t]), <<>>, to_csv(df[t]))))
    /\ UNCHANGED <<pc, question, sql, df, exc, ret>>
    /\ UNCHANGED pageVars

\* The completion call of explain_results returns or raises; on success
\* ask_data_agent returns sql, df, summary.
ExplainReturn(t, reply) ==
    /\ pc[t] = "Summarizing"
    /\ InFlight(t)
    /\ Receive(t, reply)
    /\ LET r == explain_results(reply)
       IN  IF r.raised
           THEN Throw(t, r.exc)
           ELSE /\ ret' = [ret EXCEPT ![t] = DoneTuple(sql[t], df[t], r.value)]
                /\ pc' = [pc EXCEPT ![t] = "Done"]
                /\ UNCHANGED exc
    /\ UNCHANGED <<question, sql, df>>
    /\ UNCHANGED pageVars

\* The steps of one running invocation.
Step(t) ==
    \/ SynthInvoke(t)
    \/ \E reply \in BedrockReplies : SynthReturn(t, reply)
    \/ ExecInvoke(t)
    \/ \E reply \in AthenaReplies : ExecReturn(t, reply)
    \/ ReturnEmpty(t)
    \/ ExplainInvoke(t)
    \/ \E reply \in BedrockReplies : ExplainReturn(t, reply)

Next ==
    \E t \in Threads :
        \/ \E q \in Questions : Ask(t, q)
        \/ Step(t)

Spec == Init /\ [][Next]_vars

\* ------------------------------------------------- the AI Analyst page
\* An entry of st.session_state.messages; a key the entry does not have is
\* Unbound.
Message(r, c, d, s) == [role |-> r, content |-> c, dataframe |-> d, sql |-> s]

\* The truth value of the chat input in "if prompt := st.chat_input(...)".
Truthy(prompt) == prompt.type = "str" /\ prompt.text # <<>>

\* One run of the page script up to the call of ask_data_agent: the user
\* entry is appended if a question was submitted, and ask_data_agent(prompt)
\* is called after the if statement, whatever prompt is.
Render(t, prompt) ==
    /\ ~rendering[t]
    /\ pc[t] \in {"Idle", "Done", "Failed"}
    /\ Len(messages[t]) + 2 <= MaxMessages
    /\ messages' = [messages EXCEPT ![t] =
                       IF Truthy(prompt) THEN Append(@, Message("user", prompt, Unbound, Unbound)) ELSE @]
    /\ rendering' = [rendering EXCEPT ![t] = TRUE]
    /\ Enter(t, prompt)

ShowResponse_AppendAlways(t) ==
    /\ rendering[t]
    /\ pc[t] \in {"Done", "Failed"}
    /\ messages' = [messages EXCEPT ![t] =
                       Append(@, Message("assistant", ret[t][3], ret[t][2], ret[t][1]))]
    /\ rendering' = [rendering EXCEPT ![t] = FALSE]
    /\ UNCHANGED <<pc, question, sql, df, exc, ret, calls>>

\* The rest of the run: sql, df, summary = ask_data_agent(prompt); the
\* assistant entry is appended if df is not None, else the error is shown.
ShowResponse(t) ==
    /\ rendering[t]
    /\ pc[t] \in {"Done", "Failed"}
    /\ messages' = [messages EXCEPT ![t] =
                       IF ret[t][2] # PyNone
                       THEN Append(@, Message("assistant", ret[t][3], ret[t][2], ret[t][1]))
                       ELSE @]
    /\ rendering' = [rendering EXCEPT ![t] = FALSE]
    /\ UNCHANGED <<pc, question, sql, df, exc, ret, calls>>

\* The sessions of the dashboard.
Sessions == {"t1"}

PageNext ==
    \E t \in Sessions :
        \/ \E prompt \in Questions : Render(t, prompt)
        \/ Step(t)
        \/ ShowResponse(t)

PageSpec == Init /\ [][PageNext]_vars

\* generate_sql alone, called on one thread and given any model text.
CleanThreads == {"t1"}

\* The completion call of generate_sql returns a body holding any text.
SynthReturnAny(t) ==
    /\ pc[t] = "Synthesizing"
    /\ InFlight(t)
    /\ \E txt \in AllTexts : SynthReturn(t, Reply("Content", <<>>, <<txt>>, PyNone))

CleanNext ==
    \E t \in CleanThreads :
        \/ \E q \in Questions : Ask(t, q)
        \/ SynthInvoke(t)
        \/ SynthReturnAny(t)

CleanSpec == Init /\ [][CleanNext]_vars

\* Every external call returns or raises, and a thread that can take a step
\* of its invocation takes it.
FairSpec == Spec /\ \A t \in Threads : WF_vars(Step(t))

TypeOK ==
    /\ pc \in [Threads -> Phases]
    /\ \A t \in Threads :
        /\ question[t].type \in {"unbound", "str", "NoneType"}
        /\ sql[t].type \in {"unbound", "str"}
        /\ df[t].type \in {"unbound", "DataFrame"}
        /\ Len(calls[t]) <= 3

\* ------------------------------------------------- vocabulary of the claims
\* Text s begins with text p.
StartsWith(s, p) == Len(s) >= Len(p) /\ SubSeq(s, 1, Len(p)) = p

\* Text p occurs somewhere inside text s.
IsInfix(p, s) == \E i \in 0..(Len(s) - Len(p)) : SubSeq(s, i + 1, i + Len(p)) = p

\* A completion call failed: it raised, or its reply cannot be parsed.
BadCompletion(reply) == reply.kind # "Content" \/ reply.content = <<>>

\* The k-th external call of thread t has received its reply.
Answered(t, k) == Len(calls[t]) >= k /\ calls[t][k].reply # Pending

\* Any external call failed.
CallFailed(reply) ==
    reply.kind \in {"ClientError", "NotJson", "NoContentKey", "QueryFailed"}
    \/ (reply.kind = "Content" /\ reply.content = <<>>)

\* Thread t's invocation has returned to its caller.
HasReturned(t) == pc[t] \in {"Done", "Failed"}

\* The engine answered thread t's query with a table of n rows.
EngineReturnedRows(t, n) ==
    /\ Answered(t, 2)
    /\ calls[t][2].api = "read_sql_query"
    /\ calls[t][2].reply.kind = "Table"
    /\ Len(calls[t][2].reply.table.rows) = n

\* The response has the failure shape (None, None, "Error: ...").
FailureShape(r) ==
    /\ Len(r) = 3
    /\ r[1] = PyNone
    /\ r[2] = PyNone
    /\ r[3].type = "str"
    /\ StartsWith(r[3].text, ErrorPrefix)

\* ------------------------------------------------------------------ claims
\* C1: when the query execution raises after SQL synthesis succeeded, the
\* invocation returns sql None, table None and a summary that is "Error: "
\* followed by text containing the engine's message unchanged.
C1_ExecutionFailureShape ==
    \A t \in Threads :
        (Answered(t, 2) /\ calls[t][2].api = "read_sql_query" /\ calls[t][2].reply.kind = "QueryFailed")
        => /\ pc[t] = "Failed"
           /\ FailureShape(ret[t])
           /\ IsInfix(calls[t][2].reply.msg,
                      SubSeq(ret[t][3].text, Len(ErrorPrefix) + 1, Len(ret[t][3].text)))

C1_Witness ==
    \E t \in Threads :
        /\ pc[t] = "Failed"
        /\ Answered(t, 2)
        /\ calls[t][2].reply.kind = "QueryFailed"
        /\ calls[t][2].reply.msg = <<"S","Y","N","T","A","X","_","E","R","R","O","R">>
        /\ sql[t].type = "str"

\* C2: when the synthesized query executes and yields zero rows, the
\* invocation returns the synthesized sql (not None), the empty table (not
\* None) and exactly "No data found for that query."; it never returns the
\* failure shape.
C2_EmptyResultShape ==
    \A t \in Threads :
        EngineReturnedRows(t, 0)
        => /\ pc[t] \in {"EmptyResult", "Done"}
           /\ pc[t] = "Done"
              => /\ ret[t] = <<sql[t], calls[t][2].reply.table, PyStr(NoDataMsg)>>
                 /\ ret[t][1].type = "str"
                 /\ ret[t][1].text = calls[t][2].request.sql
                 /\ ret[t][2].type = "DataFrame"
                 /\ ret[t][2].rows = <<>>
                 /\ ~FailureShape(ret[t])

C2_Witness ==
    \E t \in Threads :
        /\ pc[t] = "Done"
        /\ EngineReturnedRows(t, 0)
        /\ ret[t][3].text = NoDataMsg

\* C3: in an invocation where the engine returns zero rows the language
\* model is called exactly once, by generate_sql, and explain_results
\* never calls it.
C3_EmptyBypassesSummarizer ==
    \A t \in Threads :
        EngineReturnedRows(t, 0)
        => /\ Cardinality({k \in DOMAIN calls[t] : calls[t][k].api = "invoke_model"}) = 1
           /\ calls[t][1].caller = "generate_sql"
           /\ \A k \in DOMAIN calls[t] : calls[t][k].caller # "explain_results"

C3_Witness ==
    \E t \in Threads :
        /\ pc[t] = "Done"
        /\ EngineReturnedRows(t, 0)
        /\ Len(calls[t]) = 2
        /\ calls[t][1].api = "invoke_model"

\* C4 as stated: when the model returns SQL, the engine returns at least
\* one row and the summarization call does not fail, the invocation returns
\* a sql that is not None, a table that is not None and a non-empty summary.
C4_Original ==
    \A t \in Threads :
        (Answered(t, 3) /\ ~BadCompletion(calls[t][3].reply))
        => /\ pc[t] = "Done"
           /\ ret[t][1].type = "str"
           /\ ret[t][2].type = "DataFrame"
           /\ ret[t][3].type = "str"
           /\ ret[t][3].text # <<>>

\* C4 as amended: under the same conditions the invocation returns a sql
\* that is not None, the engine's table, and as summary the text of the
\* model's reply, which is non-empty whenever that text is non-empty.
C4_SuccessShape ==
    \A t \in Threads :
        (Answered(t, 3) /\ ~BadCompletion(calls[t][3].reply))
        => /\ pc[t] = "Done"
           /\ ret[t][1].type = "str"
           /\ ret[t][2].type = "DataFrame"
           /\ Len(ret[t][2].rows) >= 1
           /\ ret[t][3].type = "str"
           /\ ret[t][3].text = calls[t][3].reply.content[1]
           /\ calls[t][3].reply.content[1] # <<>> => ret[t][3].text # <<>>

C4_Witness ==
    \E t \in Threads :
        /\ pc[t] = "Done"
        /\ Answered(t, 3)
        /\ calls[t][3].reply.content = << <<" ", "O", "K", "\n">> >>
        /\ ret[t][3].text # <<>>

\* C5: when SQL synthesis fails (the completion call raises or its reply
\* cannot be parsed) the invocation returns (None, None, "Error: " + detail)
\* and neither the query executor nor the summarizer is called.
C5_SynthesisFailure ==
    \A t \in Threads :
        (Answered(t, 1) /\ BadCompletion(calls[t][1].reply))
        => /\ pc[t] = "Failed"
           /\ FailureShape(ret[t])
           /\ ret[t][3].text = ErrorPrefix \o Str(exc[t])
           /\ Len(calls[t]) = 1
           /\ calls[t][1].caller = "generate_sql"

C5_Witness ==
    \E t \in Threads :
        /\ pc[t] = "Failed"
        /\ Len(calls[t]) = 1
        /\ calls[t][1].reply.kind = "NoContentKey"
        /\ ret[t][3].text = ErrorPrefix \o <<"'","c","o","n","t","e","n","t","'">>

\* C6: when synthesis and execution succeed with a non-empty table and the
\* summarization call fails, the invocation returns (None, None,
\* "Error: ..."): the sql and the table it holds are not in the response.
C6_SummaryFailureDiscards ==
    \A t \in Threads :
        (Answered(t, 3) /\ BadCompletion(calls[t][3].reply))
        => /\ pc[t] = "Failed"
           /\ sql[t].type = "str"
           /\ df[t].type = "DataFrame"
           /\ Len(df[t].rows) >= 1
           /\ FailureShape(ret[t])

C6_Witness ==
    \E t \in Threads :
        /\ pc[t] = "Failed"
        /\ Answered(t, 3)
        /\ calls[t][3].caller = "explain_results"
        /\ BadCompletion(calls[t][3].reply)
        /\ df[t].type = "DataFrame"

\* C7: every response has sql None exactly when table None, and a summary
\* beginning with "Error: " whenever table is None; so the table alone
\* tells error (None), empty-result notice (empty) and data with narrative
\* (non-empty) apart.
C7_ResponseShape ==
    \A t \in Threads :
        HasReturned(t)
        => /\ Len(ret[t]) = 3
           /\ (ret[t][1] = PyNone) <=> (ret[t][2] = PyNone)
           /\ ret[t][2] = PyNone => StartsWith(ret[t][3].text, ErrorPrefix)
           /\ (ret[t][2] = PyNone) <=> (pc[t] = "Failed")
           /\ ret[t][2] # PyNone
              => /\ ret[t][2].type = "DataFrame"
                 /\ DfEmpty(ret[t][2]) <=> EngineReturnedRows(t, 0)
                 /\ DfEmpty(ret[t][2]) => ret[t][3].text = NoDataMsg
                 /\ ~DfEmpty(ret[t][2]) => (Answered(t, 3) /\ ~BadCompletion(calls[t][3].reply))

C7_Witness ==
    \E t, u \in Threads :
        /\ pc[t] = "Failed"
        /\ ret[t][2] = PyNone
        /\ pc[u] = "Done"
        /\ ret[u][2] # PyNone

\* The phase changes ask_data_agent allows; the last two start the next
\* invocation on a thread whose previous one has returned.
PhaseOrder ==
    { <<"Idle", "Synthesizing">>,
      <<"Synthesizing", "Executing">>, <<"Synthesizing", "Failed">>,
      <<"Executing", "EmptyResult">>, <<"Executing", "Summarizing">>, <<"Executing", "Failed">>,
      <<"EmptyResult", "Done">>,
      <<"Summarizing", "Done">>, <<"Summarizing", "Failed">>,
      <<"Done", "Synthesizing">>, <<"Failed", "Synthesizing">> }

\* The executor is called only after generate_sql has returned, and the
\* summarizer only after the executor has returned a non-empty table.
CallsInOrder(t) ==
    /\ \A k \in DOMAIN calls[t] :
          calls[t][k].api = "read_sql_query"
          => /\ k = 2
             /\ calls[t][1].caller = "generate_sql"
             /\ calls[t][1].reply # Pending
             /\ ~BadCompletion(calls[t][1].reply)
             /\ sql[t].type = "str"
    /\ \A k \in DOMAIN calls[t] :
          calls[t][k].caller = "explain_results"
          => /\ k = 3
             /\ calls[t][2].api = "read_sql_query"
             /\ calls[t][2].reply.kind = "Table"
             /\ Len(calls[t][2].reply.table.rows) >= 1
             /\ df[t] = calls[t][2].reply.table

\* C8: within one invocation the phases follow Synthesizing, Executing,
\* then EmptyResult or Summarizing, then Done, with Failed entered only
\* from Synthesizing, Executing or Summarizing; the executor is never
\* called before the synthesizer has returned, nor the summarizer before
\* the executor has returned a non-empty table.
C8_PhaseOrder ==
    /\ [][\A t \in Threads : pc'[t] # pc[t] => <<pc[t], pc'[t]>> \in PhaseOrder]_vars
    /\ [](\A t \in Threads : CallsInOrder(t))

C8_Witness ==
    \E t \in Threads :
        /\ pc[t] = "Summarizing"
        /\ InFlight(t)
        /\ calls[t][3].caller = "explain_results"
        /\ Len(df[t].rows) = MaxRows

\* C9: no external call is retried: in one invocation each of the three
\* calls is issued at most once, and after the first failed call no other
\* call is issued.
C9_NoRetry ==
    \A t \in Threads :
        /\ \A i, j \in DOMAIN calls[t] :
              (calls[t][i].api = calls[t][j].api /\ calls[t][i].caller = calls[t][j].caller) => i = j
        /\ \A i \in DOMAIN calls[t] : CallFailed(calls[t][i].reply) => i = Len(calls[t])
        /\ (\E i \in DOMAIN calls[t] : CallFailed(calls[t][i].reply)) => pc[t] = "Failed"

C9_Witness ==
    \E t \in Threads :
        /\ pc[t] = "Failed"
        /\ Len(calls[t]) = 2
        /\ calls[t][2].reply.msg = <<"E","r","r","o","r",":"," ","t","i","m","e","o","u","t">>
        /\ calls[t][1].reply.kind = "Content"

\* C10: when every external call returns or raises, every invocation ends
\* by handing its caller a 3-tuple, and no error raised in one of the three
\* phases leaves ask_data_agent.
C10_AlwaysReturnsTuple ==
    /\ [](\A t \in Threads : pc[t] # "Raised")
    /\ [](\A t \in Threads : HasReturned(t) => Len(ret[t]) = 3)
    /\ \A t \in Threads :
          (pc[t] \in {"Synthesizing", "Executing", "EmptyResult", "Summarizing"})
          ~> (HasReturned(t) /\ Len(ret[t]) = 3)

C10_Witness ==
    \E t \in Threads :
        /\ pc[t] = "Failed"
        /\ exc[t].cls \in {"KeyError", "IndexError", "JSONDecodeError"}
        /\ Len(ret[t]) = 3
        /\ calls[t][Len(calls[t])].caller = "explain_results"

\* The replies thread t's invocation has received, in order.
Replies(t) == [k \in DOMAIN calls[t] |-> calls[t][k].reply]

\* Everything thread t's invocation holds.
Frame(t) == <<pc[t], question[t], sql[t], df[t], exc[t], ret[t], calls[t]>>

\* C11: concurrent invocations are independent: a step of one invocation
\* writes nothing another invocation holds, and under every interleaving
\* two returned invocations with the same question and the same replies to
\* their own external calls have the same response.
C11_Independent ==
    /\ [][\E t \in Threads : \A u \in Threads \ {t} : Frame(u)' = Frame(u)]_vars
    /\ [](\A t, u \in Threads :
            (HasReturned(t) /\ HasReturned(u) /\ question[t] = question[u] /\ Replies(t) = Replies(u))
            => ret[t] = ret[u])

C11_Witness ==
    /\ pc["t1"] = "Done"
    /\ pc["t2"] = "Done"
    /\ question["t1"] = question["t2"]
    /\ Replies("t1") = Replies("t2")
    /\ Len(calls["t1"]) = 3
    /\ ret["t1"] = ret["t2"]

\* The invocation of thread t has made its own synthesis call for its own
\* question and, when it returns a table, its own query execution.
OwnCalls(t) ==
    /\ Answered(t, 1)
    /\ calls[t][1].api = "invoke_model"
    /\ calls[t][1].caller = "generate_sql"
    /\ calls[t][1].request.question = Format(question[t])
    /\ pc[t] = "Done"
       => /\ Answered(t, 2)
          /\ calls[t][2].api = "read_sql_query"
          /\ calls[t][2].reply.kind = "Table"
          /\ ret[t][2] = calls[t][2].reply.table

\* C12: nothing is cached or deduplicated: every invocation starts with no
\* response and no call carried over from an earlier one, and every
\* returned invocation, also one whose question another invocation asks or
\* has asked, has issued its own synthesis call and, if it returns a table,
\* its own query execution.
C12_NoCache ==
    /\ [][\A t \in Threads :
            (pc[t] \in {"Idle", "Done", "Failed"} /\ pc'[t] # pc[t])
            => (pc'[t] = "Synthesizing" /\ calls'[t] = <<>> /\ ret'[t] = NoRet
                /\ sql'[t] = Unbound /\ df'[t] = Unbound)]_vars
    /\ [](\A t \in Threads : HasReturned(t) => OwnCalls(t))

C12_Witness ==
    /\ pc["t1"] = "Done"
    /\ pc["t2"] = "Done"
    /\ question["t1"] = question["t2"]
    /\ question["t1"].type = "str"
    /\ OwnCalls("t1")
    /\ OwnCalls("t2")
    /\ ret["t1"] # ret["t2"]

\* The model text generate_sql received on thread t, and what it returned.
ModelText(t) == calls[t][1].reply.content[1]

GeneratedSql(t) == sql[t].text

\* generate_sql has returned on thread t.
SqlReturned(t) == Answered(t, 1) /\ sql[t].type = "str"

\* A fenced code block: the opening fence line with its language tag, the
\* inner text, the closing fence.
Block(tag, inner) == Fence \o tag \o <<"\n">> \o inner \o Fence

\* The language tags of an opening fence: none, sql, another language.
LanguageTags == { <<>>, <<"s", "q", "l">>, <<"S">> }

\* Text s has no leading and no trailing whitespace.
Trimmed(s) == s = <<>> \/ (Head(s) \notin Whitespace /\ s[Len(s)] \notin Whitespace)

\* C13 as stated: for every model output that is an inner text wrapped in
\* a fenced code block, with or without a language tag, generate_sql
\* returns exactly the inner text (its surrounding whitespace removed),
\* with no fence marker and no language tag in it.
C13_Original ==
    \A t \in Threads :
        SqlReturned(t)
        => \A tag \in LanguageTags, inner \in TextsOf(3) :
              ModelText(t) = Block(tag, inner)
              => /\ GeneratedSql(t) = Strip(inner)
                 /\ ~IsInfix(Fence, GeneratedSql(t))
                 /\ Trimmed(GeneratedSql(t))

\* C13 as amended: for every model output that is a fenced code block whose
\* opening fence line is bare or tagged sql and whose inner text contains no
\* triple grave accent, generate_sql returns exactly the inner text with its
\* surrounding whitespace removed, with no fence marker and no tag in it.
C13_FencedBlock ==
    \A t \in Threads :
        SqlReturned(t)
        => \A tag \in { <<>>, <<"s", "q", "l">> }, inner \in TextsOf(3) :
              (ModelText(t) = Block(tag, inner) /\ ~IsInfix(Fence, inner))
              => /\ GeneratedSql(t) = Strip(inner)
                 /\ ~IsInfix(Fence, GeneratedSql(t))
                 /\ Trimmed(GeneratedSql(t))

C13_Witness ==
    \E t \in Threads :
        /\ SqlReturned(t)
        /\ ModelText(t) = Block(<<"s", "q", "l">>, <<Tick, "S">>)
        /\ GeneratedSql(t) = <<Tick, "S">>

\* The classes of the errors a failed completion raises in generate_sql.
GenerationErrors == {"ClientError", "JSONDecodeError", "KeyError", "IndexError"}

\* C14 as stated: generate_sql fails whenever the completion call errors or
\* returns an empty body, and it never returns an empty SQL string, so the
\* executor is never called with empty SQL text.
C14_Original ==
    \A t \in Threads :
        /\ (Answered(t, 1) /\ BadCompletion(calls[t][1].reply))
           => (pc[t] = "Failed" /\ exc[t].cls \in GenerationErrors /\ sql[t] = Unbound)
        /\ sql[t].type = "str" => sql[t].text # <<>>
        /\ \A k \in DOMAIN calls[t] :
              calls[t][k].api = "read_sql_query" => calls[t][k].request.sql # <<>>

\* C14 as amended: generate_sql fails whenever the completion call errors
\* or its body is empty or cannot be parsed, and then the executor is not
\* called; when the reply is well formed and its text is empty or only
\* fences and whitespace, generate_sql returns the empty string and the
\* executor is called with it: SQL text is empty only in that case.
C14_EmptySqlOnlyFromEmptyText ==
    \A t \in Threads :
        /\ (Answered(t, 1) /\ BadCompletion(calls[t][1].reply))
           => /\ pc[t] = "Failed"
              /\ exc[t].cls \in GenerationErrors
              /\ sql[t] = Unbound
              /\ \A k \in DOMAIN calls[t] : calls[t][k].api # "read_sql_query"
        /\ sql[t].type = "str"
           => /\ ~BadCompletion(calls[t][1].reply)
              /\ (sql[t].text = <<>>) <=> (CleanSql(calls[t][1].reply.content[1]) = <<>>)
        /\ \A k \in DOMAIN calls[t] :
              (calls[t][k].api = "read_sql_query" /\ calls[t][k].request.sql = <<>>)
              => (~BadCompletion(calls[t][1].reply) /\ CleanSql(calls[t][1].reply.content[1]) = <<>>)

C14_Witness ==
    \E t \in Threads :
        /\ Len(calls[t]) >= 2
        /\ calls[t][2].api = "read_sql_query"
        /\ calls[t][2].request.sql = <<>>
        /\ calls[t][1].reply.content = << <<>> >>

\* C15: on the Done path the table in the response is exactly the table
\* the engine returned, and the data handed to the summarizer's prompt is
\* its header followed by all of its rows in the engine's order: no row is
\* dropped, added, truncated or reordered.
C15_TablePreserved ==
    \A t \in Threads :
        /\ (pc[t] = "Done" /\ Answered(t, 2)) => ret[t][2] = calls[t][2].reply.table
        /\ Len(calls[t]) = 3
           => LET table == calls[t][2].reply.table
                  data == calls[t][3].request.data
              IN  /\ df[t] = table
                  /\ Len(data) = Len(table.rows) + 1
                  /\ data[1] = table.columns
                  /\ \A i \in 1..Len(table.rows) : data[i + 1] = table.rows[i]

C15_Witness ==
    \E t \in Threads :
        /\ pc[t] = "Done"
        /\ Answered(t, 3)
        /\ Len(ret[t][2].rows) >= 2
        /\ ret[t][2].rows[2] = ResultRow(2)
        /\ Len(calls[t][3].request.data) >= 3

\* C16: on the Done path the summary in the response is exactly the text
\* the model returned for the summarization request, unmodified, and that
\* request carried the caller's question and not the generated SQL.
C16_SummaryVerbatim ==
    \A t \in Threads :
        /\ (pc[t] = "Done" /\ Answered(t, 3))
           => ret[t][3] = PyStr(calls[t][3].reply.content[1])
        /\ Len(calls[t]) = 3
           => /\ calls[t][3].caller = "explain_results"
              /\ calls[t][3].request.question = Format(question[t])
              /\ calls[t][3].request.sql = <<>>

C16_Witness ==
    \E t \in Threads :
        /\ pc[t] = "Done"
        /\ Answered(t, 3)
        /\ question[t] = PyStr(<<"Q", "?">>)
        /\ calls[t][3].request.question = <<"Q", "?">>
        /\ ret[t][3].text = <<" ", "O", "K", "\n">>

\* The schema texts get_athena_schema returned to the generate_sql calls
\* that are on record.
SchemaTextsSeen ==
    { calls[t][1].request.schema :
        t \in { u \in Threads : calls[u] # <<>> /\ calls[u][1].caller = "generate_sql" } }

\* C17: the schema provider is deterministic and stateless: whatever has
\* happened between them, in any interleaving of invocations, any two
\* calls of get_athena_schema return the same text, and no step changes
\* the text a recorded call returned.
C17_SchemaConstant ==
    /\ [](Cardinality(SchemaTextsSeen) <= 1)
    /\ [][\A t \in Threads :
            (calls[t] # <<>> /\ calls'[t] # <<>>)
            => \A s \in SchemaTextsSeen : calls'[t][1].request.schema = s]_vars

C17_Witness ==
    /\ Len(calls["t1"]) = 3
    /\ pc["t1"] = "Failed"
    /\ Len(calls["t2"]) = 1
    /\ InFlight("t2")
    /\ calls["t1"][1].request.schema = calls["t2"][1].request.schema
    /\ question["t1"] # question["t2"]

\* C18: the SQL text sent to the engine is exactly what generate_sql
\* returned after its cleanup, and a response that carries a sql carries
\* that same text: the executed and the reported SQL never differ.
C18_ExecutedIsReported ==
    \A t \in Threads :
        /\ Len(calls[t]) >= 2
           => /\ calls[t][2].api = "read_sql_query"
              /\ calls[t][2].request.schema = DATABASE
              /\ calls[t][2].request.sql = sql[t].text
              /\ calls[t][2].request.sql = CleanSql(calls[t][1].reply.content[1])
        /\ (HasReturned(t) /\ ret[t][1] # PyNone)
           => /\ ret[t][1].type = "str"
              /\ Len(calls[t]) >= 2
              /\ ret[t][1].text = calls[t][2].request.sql

C18_Witness ==
    \E t \in Threads :
        /\ pc[t] = "Done"
        /\ StartsWith(calls[t][1].reply.content[1], FenceSql)
        /\ calls[t][2].request.sql = <<"S">>
        /\ ret[t][1] = PyStr(<<"S">>)

\* C19: for every model text whatsoever, with fences next to other grave
\* accents or in the middle of the text, the cleanup of generate_sql gives
\* a string with no triple grave accent and no leading or trailing
\* whitespace, and cleaning that string again changes nothing.
C19_CleanupNormalForm ==
    \A t \in Threads :
        SqlReturned(t)
        => /\ GeneratedSql(t) = CleanSql(ModelText(t))
           /\ ~IsInfix(Fence, GeneratedSql(t))
           /\ Trimmed(GeneratedSql(t))
           /\ CleanSql(GeneratedSql(t)) = GeneratedSql(t)

C19_Witness ==
    \E t \in Threads :
        /\ SqlReturned(t)
        /\ ModelText(t) = <<Tick, Tick, Tick, Tick, "s", "q", "l", Tick, "S", "\n">>
        /\ GeneratedSql(t) = <<Tick, Tick, "S">>

\* C20: in the AI Analyst page ask_data_agent is invoked in a run only if
\* the user submitted a question in that run; a run with no submitted
\* question issues no language-model call and no query; and every
\* assistant entry of the transcript comes right after the user entry
\* holding its question.
C20_Original ==
    \A t \in Threads :
        /\ rendering[t] => Truthy(question[t])
        /\ (rendering[t] /\ ~Truthy(question[t])) => calls[t] = <<>>
        /\ \A i \in DOMAIN messages[t] :
              messages[t][i].role = "assistant"
              => (i > 1 /\ messages[t][i - 1].role = "user")

\* The transcript of t grows by exactly the entry m.
Appended(t, m) == messages'[t] = Append(messages[t], m)

\* The page run on t receives the answer of ask_data_agent in this step.
AskReturnsToPage(t) == rendering[t] /\ ~rendering'[t]

\* C21: the transcript is append-only: every step leaves it unchanged or
\* adds one entry at its end; when ask_data_agent returns a table that is
\* not None (the empty table included) exactly the assistant entry with
\* the summary, the table and the sql is appended; when it returns the
\* failure shape the transcript is left as it was; and no other step adds
\* an assistant entry.
C21_TranscriptAppendOnly ==
    [][\A t \in Sessions :
          /\ \/ messages'[t] = messages[t]
             \/ /\ Len(messages'[t]) = Len(messages[t]) + 1
                /\ SubSeq(messages'[t], 1, Len(messages[t])) = messages[t]
          /\ (AskReturnsToPage(t) /\ ret[t][2] # PyNone)
             => Appended(t, Message("assistant", ret[t][3], ret[t][2], ret[t][1]))
          /\ (AskReturnsToPage(t) /\ FailureShape(ret[t]))
             => messages'[t] = messages[t]
          /\ (messages'[t] # messages[t] /\ messages'[t][Len(messages'[t])].role = "assistant")
             => (AskReturnsToPage(t) /\ ret[t][2] # PyNone)
      ]_vars

\* A failed question left its user entry alone in the transcript, and the
\* next question, answered with an empty table, added its assistant entry
\* after both user entries.
C21_Witness ==
    \E t \in Sessions :
        /\ ~rendering[t]
        /\ pc[t] = "Done"
        /\ Len(messages[t]) = 3
        /\ messages[t][1].role = "user"
        /\ messages[t][2].role = "user"
        /\ messages[t][3] = Message("assistant", PyStr(NoDataMsg), ret[t][2], ret[t][1])
        /\ DfEmpty(ret[t][2])

====
